---- MODULE Spec2Model ----
(***************************************************************************)
(* ArcTraiders trading ledger (src/trading.py): the TradeLedger            *)
(* orchestrator over the in-memory backend.  A table is a sequence of      *)
(* positional rows whose first element is the header row, exactly as       *)
(* MemoryBackend keeps it, so row indices are the code's 1-based indices.  *)
(* Every cell is a string; timestamps are the strings utcnow() formats.    *)
(***************************************************************************)
EXTENDS Integers, Sequences, FiniteSets, TLC

VARIABLES active, completed, clock, nextId, last, failures, procs, reached

vars == <<active, completed, clock, nextId, last, failures, procs, reached>>

\* ---------------------------------------------------------------- bounds
MaxOffers == 2
MaxClock == 2
\* storage calls that fail in one run of SpecFail
MaxFailures == 1
\* calls that stop partway in one run of SpecStop
MaxStops == 2
\* data rows of the active table that SpecCleanup starts from
MaxRows == 3
\* cells a stored row of SpecRead may lack or have in excess of the schema
MaxExtra == 2

\* ------------------------------------------------ schema / constants
HEADERS ==
  << "offer_id", "status", "item_raw", "item_norm",
     "offerer_id", "offerer_name", "accepter_id", "accepter_name",
     "created_ts", "accepted_ts", "completed_ts",
     "notes", "guild_id", "channel_id" >>

STATUS_OPEN == "OPEN"
STATUS_ACCEPTED == "ACCEPTED"
STATUS_COMPLETED == "COMPLETED"
STATUS_CANCELLED == "CANCELLED"

\* HEADERS.index(h): 0-based column of field h
HeaderIndexTable ==
  [h \in {HEADERS[i] : i \in 1..Len(HEADERS)} |->
     CHOOSE i \in 0..(Len(HEADERS) - 1) : HEADERS[i + 1] = h]

HeaderIndex(h) == HeaderIndexTable[h]

\* ------------------------------------------------------------ utilities
\* The values utcnow() can return, one per second of the modelled clock:
\* ISO-8601, second precision, literal Z suffix.
Stamps ==
  << "2026-01-01T00:00:01Z", "2026-01-01T00:00:02Z", "2026-01-01T00:00:03Z",
     "2026-01-01T00:00:04Z", "2026-01-01T00:00:05Z", "2026-01-01T00:00:06Z" >>

utcnow(c) == Stamps[c]

\* Python compares the timestamp strings lexicographically; for the strings
\* above (and the empty string, which sorts first) that order is this rank.
StrRank(s) == IF s = "" THEN 0 ELSE CHOOSE n \in 1..Len(Stamps) : Stamps[n] = s

\* str.upper() on the status values that can be stored in the status cell
Upper(s) ==
  CASE s = "completed" -> "COMPLETED"
    [] s = "cancelled" -> "CANCELLED"
    [] OTHER -> s

\* dict(zip(HEADERS, row)): keyed by the headers the row has values for
Zip(row) ==
  LET n == IF Len(row) < Len(HEADERS) THEN Len(row) ELSE Len(HEADERS)
  IN [h \in {HEADERS[i] : i \in 1..n} |-> row[HeaderIndex(h) + 1]]

\* dict.get(h, default)
Get(rec, h, default) == IF h \in DOMAIN rec THEN rec[h] ELSE default

\* Python's `a or b` on strings: the empty string is falsy
Or(a, b) == IF a # "" THEN a ELSE b

\* --------------------------------------------------- MemoryBackend
\* mutant: the new row is written over the last data row
append_active_overwrites(a, row) ==
  IF Len(a) > 1 THEN [a EXCEPT ![Len(a)] = row] ELSE Append(a, row)

append_active(a, row) == Append(a, row)

update_active_cell(a, row_idx_1, col_idx_0, value) ==
  [a EXCEPT ![row_idx_1][col_idx_0 + 1] = value]

read_active_row(a, row_idx_1) == Zip(a[row_idx_1])

\* first data row (header skipped) whose first cell is offer_id; 0 is None
find_active_row_index(a, offer_id) ==
  LET hits == {i \in 2..Len(a) : Len(a[i]) > 0 /\ a[i][1] = offer_id}
  IN IF hits = {} THEN 0 ELSE CHOOSE i \in hits : \A j \in hits : i <= j

read_active_all(a) == [i \in 1..(Len(a) - 1) |-> Zip(a[i + 1])]

append_completed(c, row) == Append(c, row)

read_active_rows_with_indices(a) ==
  [i \in 1..(Len(a) - 1) |-> <<i + 1, a[i + 1]>>]

\* mutant: the batch is inserted right under the header row
append_completed_rows_on_top(c, rows) == <<c[1]>> \o rows \o Tail(c)

append_completed_rows(c, rows) == c \o rows

\* del self.active[idx - 1]
DelRow(a, idx) == [i \in 1..(Len(a) - 1) |-> IF i < idx THEN a[i] ELSE a[i + 1]]

\* for idx in sorted(row_indices_1based, reverse=True): del self.active[idx-1]
RECURSIVE DeleteDescending(_, _)
DeleteDescending(a, idxSet) ==
  IF idxSet = {} THEN a
  ELSE LET m == CHOOSE i \in idxSet : \A j \in idxSet : j <= i
       IN DeleteDescending(DelRow(a, m), idxSet \ {m})

\* mutant: the rows are appended to the archive but never deleted
delete_active_rows_noop(a, row_indices_1based) == a

delete_active_rows(a, row_indices_1based) ==
  DeleteDescending(a, {row_indices_1based[k] : k \in DOMAIN row_indices_1based})

read_completed_all(c) == [i \in 1..(Len(c) - 1) |-> Zip(c[i + 1])]

\* ------------------------------------------------------- TradeLedger
\* mutant: include_cancelled is ignored
target_statuses_ignores_flag(include_cancelled) == {STATUS_COMPLETED}

\* target_statuses of cleanup
target_statuses(include_cancelled) ==
  IF include_cancelled THEN {STATUS_COMPLETED, STATUS_CANCELLED}
  ELSE {STATUS_COMPLETED}

\* (row + [""] * (len(HEADERS) - len(row)))[:len(HEADERS)]
NormalizeRow(row) ==
  [i \in 1..Len(HEADERS) |-> IF i <= Len(row) THEN row[i] ELSE ""]

\* [rec.get(h, "") for h in HEADERS]
RowOf(rec) == [i \in 1..Len(HEADERS) |-> Get(rec, HEADERS[i], "")]

\* mutant: a row counts as a target only once its completed_ts is filled in
IsTarget_needs_stamp(pair, include_cancelled) ==
  /\ Upper(Get(Zip(NormalizeRow(pair[2])), "status", ""))
       \in target_statuses(include_cancelled)
  /\ Get(Zip(NormalizeRow(pair[2])), "completed_ts", "") # ""

\* mutant: the status is compared without .upper()
IsTarget_case_sensitive(pair, include_cancelled) ==
  Get(Zip(NormalizeRow(pair[2])), "status", "")
    \in target_statuses(include_cancelled)

\* the test of cleanup's loop on one (idx_1, row) pair
IsTarget(pair, include_cancelled) ==
  Upper(Get(Zip(NormalizeRow(pair[2])), "status", ""))
    \in target_statuses(include_cancelled)

\* mutant: skipped is incremented for every row, moved ones included
cleanup_counts_every_row(a, c, include_cancelled) ==
  LET rows_with_idx == read_active_rows_with_indices(a)
      Hit(pair) == IsTarget(pair, include_cancelled)
      hits == SelectSeq(rows_with_idx, Hit)
      to_move == [k \in 1..Len(hits) |-> RowOf(Zip(NormalizeRow(hits[k][2])))]
      to_delete == [k \in 1..Len(hits) |-> hits[k][1]]
  IN [active |-> delete_active_rows(a, to_delete),
      completed |-> append_completed_rows(c, to_move),
      moved |-> Len(to_move), deleted |-> Len(to_delete),
      skipped |-> Len(rows_with_idx)]

\* cleanup: read, partition, append the targets to the archive, delete them
cleanup(a, c, include_cancelled) ==
  LET rows_with_idx == read_active_rows_with_indices(a)
      Hit(pair) == IsTarget(pair, include_cancelled)
      Miss(pair) == ~IsTarget(pair, include_cancelled)
      hits == SelectSeq(rows_with_idx, Hit)
      to_move == [k \in 1..Len(hits) |-> RowOf(Zip(NormalizeRow(hits[k][2])))]
      to_delete == [k \in 1..Len(hits) |-> hits[k][1]]
      skipped == Len(SelectSeq(rows_with_idx, Miss))
  IN [active |-> delete_active_rows(a, to_delete),
      completed |-> append_completed_rows(c, to_move),
      moved |-> Len(to_move), deleted |-> Len(to_delete), skipped |-> skipped]

\* mutant: the sweep calls cleanup() with its default include_cancelled=False
sweep_completed_only(a, c) ==
  LET r == cleanup(a, c, FALSE) IN [active |-> r.active, completed |-> r.completed]

\* _sweep_active_to_completed: cleanup(include_cancelled=True); the in-memory
\* backend raises nothing here, so the except branch is never taken
sweep(a, c) ==
  LET r == cleanup(a, c, TRUE) IN [active |-> r.active, completed |-> r.completed]

\* mutant: the creation stamp lands one column to the right
offer_row_stamp_shifted(offer_id, offerer_id, offerer_name, item_raw, now, notes, guild_id, channel_id) ==
  << offer_id, STATUS_OPEN, item_raw, item_raw,
     offerer_id, offerer_name, "", "",
     "", now, "",
     notes, guild_id, channel_id >>

\* the row offer() builds
offer_row(offer_id, offerer_id, offerer_name, item_raw, now, notes, guild_id, channel_id) ==
  << offer_id, STATUS_OPEN, item_raw, item_raw,
     offerer_id, offerer_name, "", "",
     now, "", "",
     notes, guild_id, channel_id >>

\* offer(): sweep, qty check, append, sweep
offer(a, c, offer_id, offerer_id, offerer_name, item_raw, qty, notes, guild_id, channel_id, now) ==
  LET s1 == sweep(a, c)
  IN IF qty <= 0
     THEN [active |-> s1.active, completed |-> s1.completed, raised |-> TRUE]
     ELSE LET row == offer_row(offer_id, offerer_id, offerer_name, item_raw,
                               now, notes, guild_id, channel_id)
              s2 == sweep(append_active(s1.active, row), s1.completed)
          IN [active |-> s2.active, completed |-> s2.completed, raised |-> FALSE]

\* mutant: accept uses complete's precondition
accept_allowed_like_complete(row) ==
  Get(row, "status", "None") \in {STATUS_ACCEPTED, STATUS_OPEN}

\* accept's precondition on the row it read
accept_allowed(row) == Get(row, "status", "None") = STATUS_OPEN

\* mutant: the accepted_ts update is missing
accept_writes_no_stamp(a, idx, accepter_id, accepter_name, now) ==
  LET a1 == update_active_cell(a, idx, HeaderIndex("status"), STATUS_ACCEPTED)
      a2 == update_active_cell(a1, idx, HeaderIndex("accepter_id"), accepter_id)
  IN update_active_cell(a2, idx, HeaderIndex("accepter_name"), accepter_name)

\* mutant: the stamp of accept() lands in the completed_ts column
accept_writes_wrong_stamp_column(a, idx, accepter_id, accepter_name, now) ==
  LET a1 == update_active_cell(a, idx, HeaderIndex("status"), STATUS_ACCEPTED)
      a2 == update_active_cell(a1, idx, HeaderIndex("accepter_id"), accepter_id)
      a3 == update_active_cell(a2, idx, HeaderIndex("accepter_name"), accepter_name)
  IN update_active_cell(a3, idx, HeaderIndex("completed_ts"), now)

\* accept's four cell updates
accept_writes(a, idx, accepter_id, accepter_name, now) ==
  LET a1 == update_active_cell(a, idx, HeaderIndex("status"), STATUS_ACCEPTED)
      a2 == update_active_cell(a1, idx, HeaderIndex("accepter_id"), accepter_id)
      a3 == update_active_cell(a2, idx, HeaderIndex("accepter_name"), accepter_name)
  IN update_active_cell(a3, idx, HeaderIndex("accepted_ts"), now)

\* accept(): sweep, find, check, write, sweep
accept(a, c, offer_id, accepter_id, accepter_name, now) ==
  LET s1 == sweep(a, c)
      idx == find_active_row_index(s1.active, offer_id)
  IN IF idx = 0
     THEN [active |-> s1.active, completed |-> s1.completed, ret |-> FALSE]
     ELSE IF ~accept_allowed(read_active_row(s1.active, idx))
     THEN [active |-> s1.active, completed |-> s1.completed, ret |-> FALSE]
     ELSE LET s2 == sweep(accept_writes(s1.active, idx, accepter_id, accepter_name, now),
                          s1.completed)
          IN [active |-> s2.active, completed |-> s2.completed, ret |-> TRUE]

\* complete's precondition on the row it read
complete_allowed(row) ==
  Get(row, "status", "None") \in {STATUS_ACCEPTED, STATUS_OPEN}

\* mutant: the completed_ts update of the active row is missing
complete_writes_no_stamp(a, idx, now) ==
  update_active_cell(a, idx, HeaderIndex("status"), STATUS_COMPLETED)

\* mutant: the wrong status constant is written
complete_writes_cancelled(a, idx, now) ==
  LET a1 == update_active_cell(a, idx, HeaderIndex("status"), STATUS_CANCELLED)
  IN update_active_cell(a1, idx, HeaderIndex("completed_ts"), now)

\* complete's two cell updates
complete_writes(a, idx, now) ==
  LET a1 == update_active_cell(a, idx, HeaderIndex("status"), STATUS_COMPLETED)
  IN update_active_cell(a1, idx, HeaderIndex("completed_ts"), now)

\* row["status"] = COMPLETED; row["completed_ts"] = now; the row appended
complete_archive_row(row, now) ==
  LET r1 == [h \in DOMAIN row \cup {"status"} |->
               IF h = "status" THEN STATUS_COMPLETED ELSE row[h]]
      r2 == [h \in DOMAIN r1 \cup {"completed_ts"} |->
               IF h = "completed_ts" THEN now ELSE r1[h]]
  IN RowOf(r2)

\* mutant: complete() returns without its trailing sweep
complete_no_trailing_sweep(a, c, offer_id, now) ==
  LET s1 == sweep(a, c)
      idx == find_active_row_index(s1.active, offer_id)
  IN IF idx = 0
     THEN [active |-> s1.active, completed |-> s1.completed, ret |-> FALSE]
     ELSE LET row == read_active_row(s1.active, idx)
          IN IF ~complete_allowed(row)
             THEN [active |-> s1.active, completed |-> s1.completed, ret |-> FALSE]
             ELSE [active |-> complete_writes(s1.active, idx, now),
                   completed |-> append_completed(s1.completed,
                                                  complete_archive_row(row, now)),
                   ret |-> TRUE]

\* complete(): sweep, find, check, write, append to the archive, sweep
complete(a, c, offer_id, now) ==
  LET s1 == sweep(a, c)
      idx == find_active_row_index(s1.active, offer_id)
  IN IF idx = 0
     THEN [active |-> s1.active, completed |-> s1.completed, ret |-> FALSE]
     ELSE LET row == read_active_row(s1.active, idx)
          IN IF ~complete_allowed(row)
             THEN [active |-> s1.active, completed |-> s1.completed, ret |-> FALSE]
             ELSE LET a2 == complete_writes(s1.active, idx, now)
                      c2 == append_completed(s1.completed, complete_archive_row(row, now))
                      s2 == sweep(a2, c2)
                  IN [active |-> s2.active, completed |-> s2.completed, ret |-> TRUE]

\* completed_key of recent(): completed_ts or accepted_ts or created_ts or ""
completed_key(r) ==
  Or(Get(r, "completed_ts", ""),
     Or(Get(r, "accepted_ts", ""), Or(Get(r, "created_ts", ""), "")))

\* key of the in_progress sort: r.get("created_ts", "")
created_key(r) == Get(r, "created_ts", "")

\* mutant: an unstable descending sort, ties come out in reverse table order
InsertDesc_ties_reversed(sorted, p) ==
  LET pos == Cardinality({i \in 1..Len(sorted) : StrRank(sorted[i][1]) > StrRank(p[1])})
  IN SubSeq(sorted, 1, pos) \o <<p>> \o SubSeq(sorted, pos + 1, Len(sorted))

\* one insertion of list.sort(reverse=True): stable, so an entry goes after
\* every entry whose key is greater than or equal to its own
InsertDesc(sorted, p) ==
  LET pos == Cardinality({i \in 1..Len(sorted) : StrRank(sorted[i][1]) >= StrRank(p[1])})
  IN SubSeq(sorted, 1, pos) \o <<p>> \o SubSeq(sorted, pos + 1, Len(sorted))

RECURSIVE SortPairsDesc(_)
SortPairsDesc(pairs) ==
  IF pairs = <<>> THEN <<>>
  ELSE InsertDesc(SortPairsDesc(SubSeq(pairs, 1, Len(pairs) - 1)), pairs[Len(pairs)])

\* seq.sort(key=..., reverse=True), given the key of each entry
SortDesc(keys, seq) ==
  LET sorted == SortPairsDesc([i \in 1..Len(seq) |-> <<keys[i], seq[i]>>])
  IN [i \in 1..Len(seq) |-> sorted[i][2]]

\* if n >= 0: seq = seq[:n]
Truncate(seq, n) ==
  IF n >= 0 THEN SubSeq(seq, 1, IF n < Len(seq) THEN n ELSE Len(seq)) ELSE seq

\* mutant: ACCEPTED offers are left out of in_progress
in_progress_filter_open_only(r) == Get(r, "status", "None") = STATUS_OPEN

in_progress_filter(r) == Get(r, "status", "None") \in {STATUS_OPEN, STATUS_ACCEPTED}

lingering_filter(r) == Get(r, "status", "None") \in {STATUS_COMPLETED, STATUS_CANCELLED}

\* recent(): sweep, then build the two lists from the tables as read
recent(a, c, n_active, n_completed) ==
  LET s1 == sweep(a, c)
      active_rows == read_active_all(s1.active)
      in_progress == SelectSeq(active_rows, in_progress_filter)
      in_sorted == SortDesc([i \in 1..Len(in_progress) |-> created_key(in_progress[i])],
                            in_progress)
      completed_rows == read_completed_all(s1.completed)
      lingering_done == SelectSeq(active_rows, lingering_filter)
      completed_all == completed_rows \o lingering_done
      done_sorted == SortDesc([i \in 1..Len(completed_all) |-> completed_key(completed_all[i])],
                              completed_all)
  IN [active |-> s1.active, completed |-> s1.completed,
      in_progress |-> Truncate(in_sorted, n_active),
      completed_view |-> Truncate(done_sorted, n_completed)]

\* ------------------------------------------------------------ the inputs
\* str(uuid.uuid4())[:8]: a fresh token per offer
OfferIds == << "3f2a9c1e", "b71d04aa", "0c5e88f2", "d94b6a37", "62e1f0bd" >>

OffererIds == {"123"}
OffererNames == {"Doug"}
Items == {"Atlas Chassis"}
NotesIn == {"any rare part"}
GuildIds == {""}
ChannelIds == {""}
Accepters == {<<"456", "Ava">>}
Quantities == {0, 1}
\* statuses an external tool writes into the status cell of the shared table
ExternalStatuses == {"CANCELLED", "COMPLETED"}

IssuedIds == {OfferIds[k] : k \in 1..(nextId - 1)}
LookupIds == IssuedIds \cup {"nonexistent"}
\* (n_active, n_completed) of recent(); last(n) is recent(n, 0), _demo calls
\* recent(3, 3)
RecentArgs == {<<-1, -1>>, <<1, 1>>, <<1, 0>>, <<0, -1>>, <<3, 3>>}

\* the engine calls in progress at the same time: the ledger object holds no
\* lock, so the storage calls of two invocations interleave
Procs == {1, 2}

\* the accepter on whose behalf each invocation runs
AccepterOf == << <<"456", "Ava">>, <<"789", "Bo">> >>

\* an invocation that has not started: pc is the position in the method,
\* idx / row / to_move / to_delete are its locals, ret / raised its outcome;
\* prev is the row that stood at idx when the cell updates were issued,
\* removed the rows that the batch delete took out of the active table and
\* sweeps the number of _sweep_active_to_completed() calls it has made
Idle ==
  [pc |-> "idle", op |-> "", offer_id |-> "", accepter_id |-> "",
   accepter_name |-> "", include_cancelled |-> FALSE, idx |-> 0, row |-> <<>>,
   to_move |-> <<>>, to_delete |-> <<>>, now |-> "", ret |-> FALSE,
   raised |-> FALSE, prev |-> <<>>, removed |-> <<>>, sweeps |-> 0]

\* ------------------------------------------------------ the state machine
\* what the last call was, what it returned, and the tables before it;
\* repeat: the call directly follows a call of the same operation with the same
\* argument (cleanup: include_cancelled, complete: offer_id); failed: how many
\* storage calls failed during the call; stopped: the call ended before its
\* last statement (the process died, or a storage call raised)
NoCall ==
  [op |-> "none", offer_id |-> "", qty |-> 0, item_raw |-> "",
   accepter_id |-> "", accepter_name |-> "", include_cancelled |-> FALSE,
   n_active |-> 0, n_completed |-> 0, now |-> "",
   ret |-> FALSE, raised |-> FALSE,
   moved |-> 0, deleted |-> 0, skipped |-> 0,
   in_progress |-> <<>>, completed_view |-> <<>>,
   pre_active |-> <<>>, pre_completed |-> <<>>, repeat |-> FALSE, failed |-> 0,
   stopped |-> FALSE]

Call(op) == [NoCall EXCEPT !.op = op, !.pre_active = active, !.pre_completed = completed]

\* MemoryBackend.__init__: both tables hold the header row only
Init ==
  /\ active = <<HEADERS>>
  /\ completed = <<HEADERS>>
  /\ clock = 1
  /\ nextId = 1
  /\ last = NoCall
  /\ failures = 0
  /\ procs = [p \in Procs |-> Idle]
  /\ reached = {}

\* the wall clock advances; timestamps have second precision
Tick ==
  /\ clock < MaxClock
  /\ clock' = clock + 1
  /\ UNCHANGED <<active, completed, nextId, last, failures, procs, reached>>

Offer ==
  \E offerer_id \in OffererIds, offerer_name \in OffererNames, item_raw \in Items,
     qty \in Quantities, notes \in NotesIn, guild_id \in GuildIds, channel_id \in ChannelIds :
    /\ nextId <= MaxOffers
    /\ LET r == offer(active, completed, OfferIds[nextId], offerer_id, offerer_name,
                      item_raw, qty, notes, guild_id, channel_id, utcnow(clock))
       IN /\ active' = r.active
          /\ completed' = r.completed
          /\ nextId' = IF r.raised THEN nextId ELSE nextId + 1
          /\ last' = [Call("offer") EXCEPT !.qty = qty, !.item_raw = item_raw,
                        !.now = utcnow(clock), !.raised = r.raised,
                        !.offer_id = IF r.raised THEN "" ELSE OfferIds[nextId]]
    /\ UNCHANGED <<clock, failures, procs, reached>>

Accept ==
  \E offer_id \in LookupIds, who \in Accepters :
    /\ LET r == accept(active, completed, offer_id, who[1], who[2], utcnow(clock))
       IN /\ active' = r.active
          /\ completed' = r.completed
          /\ last' = [Call("accept") EXCEPT !.offer_id = offer_id, !.accepter_id = who[1],
                        !.accepter_name = who[2], !.now = utcnow(clock), !.ret = r.ret]
    /\ UNCHANGED <<clock, nextId, failures, procs, reached>>

Complete ==
  \E offer_id \in LookupIds :
    /\ LET r == complete(active, completed, offer_id, utcnow(clock))
       IN /\ active' = r.active
          /\ completed' = r.completed
          /\ last' = [Call("complete") EXCEPT !.offer_id = offer_id,
                        !.now = utcnow(clock), !.ret = r.ret,
                        !.repeat = (last.op = "complete" /\ last.offer_id = offer_id)]
    /\ UNCHANGED <<clock, nextId, failures, procs, reached>>

Recent ==
  \E args \in RecentArgs :
    /\ LET r == recent(active, completed, args[1], args[2])
       IN /\ active' = r.active
          /\ completed' = r.completed
          /\ last' = [Call("recent") EXCEPT !.n_active = args[1],
                        !.n_completed = args[2],
                        !.in_progress = r.in_progress,
                        !.completed_view = r.completed_view]
    /\ UNCHANGED <<clock, nextId, failures, procs, reached>>

Cleanup ==
  \E include_cancelled \in BOOLEAN :
    /\ LET r == cleanup(active, completed, include_cancelled)
       IN /\ active' = r.active
          /\ completed' = r.completed
          /\ last' = [Call("cleanup") EXCEPT !.include_cancelled = include_cancelled,
                        !.moved = r.moved, !.deleted = r.deleted, !.skipped = r.skipped,
                        !.repeat = (last.op = "cleanup"
                                    /\ last.include_cancelled = include_cancelled)]
    /\ UNCHANGED <<clock, nextId, failures, procs, reached>>

\* an external tool edits the status cell of a data row of the active table
ExternalEdit ==
  \E i \in 2..Len(active), s \in ExternalStatuses :
    /\ active[i][HeaderIndex("status") + 1] # s
    /\ active' = update_active_cell(active, i, HeaderIndex("status"), s)
    /\ last' = Call("external")
    /\ UNCHANGED <<completed, clock, nextId, failures, procs, reached>>

Next == Tick \/ Offer \/ Accept \/ Complete \/ Recent \/ Cleanup \/ ExternalEdit

Spec == Init /\ [][Next]_vars

\* the engine alone: non-overlapping calls, nobody else touches the tables
NextEngine == Tick \/ Offer \/ Accept \/ Complete \/ Recent \/ Cleanup

SpecEngine == Init /\ [][NextEngine]_vars

\* ------------------------------------------- storage calls that fail
\* The remote adapter surfaces a transport/API failure of a storage call as an
\* exception.  `f` names the storage call of cleanup() that fails: the read of
\* the rows, the batch append (issued only for a non-empty batch) or the batch
\* delete (issued only for a non-empty index list).
FailPoints == {"none", "read", "append", "delete"}

\* cleanup() in which storage call f raises: the statements before it have
\* taken effect, the ones after it have not, and the exception propagates
cleanup_failing(a, c, include_cancelled, f) ==
  LET rows_with_idx == read_active_rows_with_indices(a)
      Hit(pair) == IsTarget(pair, include_cancelled)
      Miss(pair) == ~IsTarget(pair, include_cancelled)
      hits == SelectSeq(rows_with_idx, Hit)
      to_move == [k \in 1..Len(hits) |-> RowOf(Zip(NormalizeRow(hits[k][2])))]
      to_delete == [k \in 1..Len(hits) |-> hits[k][1]]
      skipped == Len(SelectSeq(rows_with_idx, Miss))
      none == [active |-> a, completed |-> c, moved |-> 0, deleted |-> 0,
               skipped |-> 0, raised |-> TRUE]
  IN IF f = "read" THEN none
     ELSE IF f = "append" /\ to_move # <<>> THEN none
     ELSE IF f = "delete" /\ to_delete # <<>>
     THEN [none EXCEPT !.completed = append_completed_rows(c, to_move)]
     ELSE [active |-> delete_active_rows(a, to_delete),
           completed |-> append_completed_rows(c, to_move),
           moved |-> Len(to_move), deleted |-> Len(to_delete),
           skipped |-> skipped, raised |-> FALSE]

\* mutant: the sweep lets the exception of cleanup() through
sweep_failing_reraises(a, c, f) ==
  LET r == cleanup_failing(a, c, TRUE, f)
  IN [active |-> r.active, completed |-> r.completed,
      failed |-> IF r.raised THEN 1 ELSE 0, raised |-> r.raised]

\* _sweep_active_to_completed: try cleanup(True), except Exception: pass
sweep_failing(a, c, f) ==
  LET r == cleanup_failing(a, c, TRUE, f)
  IN [active |-> r.active, completed |-> r.completed,
      failed |-> IF r.raised THEN 1 ELSE 0, raised |-> FALSE]

\* offer() with sweeps that may fail; an exception leaving a sweep would
\* propagate out of offer()
offer_failing(a, c, offer_id, offerer_id, offerer_name, item_raw, qty, notes, guild_id, channel_id, now, f1, f2) ==
  LET s1 == sweep_failing(a, c, f1)
      stop == [active |-> s1.active, completed |-> s1.completed,
               raised |-> TRUE, failed |-> s1.failed]
  IN IF s1.raised THEN stop
     ELSE IF qty <= 0 THEN stop
     ELSE LET row == offer_row(offer_id, offerer_id, offerer_name, item_raw,
                               now, notes, guild_id, channel_id)
              s2 == sweep_failing(append_active(s1.active, row), s1.completed, f2)
          IN [active |-> s2.active, completed |-> s2.completed,
              raised |-> s2.raised, failed |-> s1.failed + s2.failed]

\* accept() with sweeps that may fail
accept_failing(a, c, offer_id, accepter_id, accepter_name, now, f1, f2) ==
  LET s1 == sweep_failing(a, c, f1)
      idx == find_active_row_index(s1.active, offer_id)
      stop == [active |-> s1.active, completed |-> s1.completed, ret |-> FALSE,
               raised |-> s1.raised, failed |-> s1.failed]
  IN IF s1.raised THEN stop
     ELSE IF idx = 0 THEN stop
     ELSE IF ~accept_allowed(read_active_row(s1.active, idx)) THEN stop
     ELSE LET s2 == sweep_failing(
                      accept_writes(s1.active, idx, accepter_id, accepter_name, now),
                      s1.completed, f2)
          IN [active |-> s2.active, completed |-> s2.completed, ret |-> ~s2.raised,
              raised |-> s2.raised, failed |-> s1.failed + s2.failed]

\* complete() with sweeps that may fail
complete_failing(a, c, offer_id, now, f1, f2) ==
  LET s1 == sweep_failing(a, c, f1)
      idx == find_active_row_index(s1.active, offer_id)
      stop == [active |-> s1.active, completed |-> s1.completed, ret |-> FALSE,
               raised |-> s1.raised, failed |-> s1.failed]
  IN IF s1.raised THEN stop
     ELSE IF idx = 0 THEN stop
     ELSE LET row == read_active_row(s1.active, idx)
          IN IF ~complete_allowed(row) THEN stop
             ELSE LET a2 == complete_writes(s1.active, idx, now)
                      c2 == append_completed(s1.completed, complete_archive_row(row, now))
                      s2 == sweep_failing(a2, c2, f2)
                  IN [active |-> s2.active, completed |-> s2.completed,
                      ret |-> ~s2.raised, raised |-> s2.raised,
                      failed |-> s1.failed + s2.failed]

\* recent() with a sweep that may fail
recent_failing(a, c, n_active, n_completed, f1) ==
  LET s1 == sweep_failing(a, c, f1)
      active_rows == read_active_all(s1.active)
      in_progress == SelectSeq(active_rows, in_progress_filter)
      in_sorted == SortDesc([i \in 1..Len(in_progress) |-> created_key(in_progress[i])],
                            in_progress)
      completed_rows == read_completed_all(s1.completed)
      lingering_done == SelectSeq(active_rows, lingering_filter)
      completed_all == completed_rows \o lingering_done
      done_sorted == SortDesc([i \in 1..Len(completed_all) |-> completed_key(completed_all[i])],
                              completed_all)
  IN [active |-> s1.active, completed |-> s1.completed,
      raised |-> s1.raised, failed |-> s1.failed,
      in_progress |-> IF s1.raised THEN <<>> ELSE Truncate(in_sorted, n_active),
      completed_view |-> IF s1.raised THEN <<>> ELSE Truncate(done_sorted, n_completed)]

OfferFailing ==
  \E item_raw \in Items, qty \in Quantities, f1 \in FailPoints, f2 \in FailPoints :
    /\ nextId <= MaxOffers
    /\ \E r \in {offer_failing(active, completed, OfferIds[nextId], "123", "Doug",
                              item_raw, qty, "any rare part", "", "",
                              utcnow(clock), f1, f2)} :
          /\ failures + r.failed <= MaxFailures
          /\ active' = r.active
          /\ completed' = r.completed
          /\ failures' = failures + r.failed
          /\ nextId' = IF r.raised THEN nextId ELSE nextId + 1
          /\ last' = [Call("offer") EXCEPT !.qty = qty, !.item_raw = item_raw,
                        !.now = utcnow(clock), !.raised = r.raised,
                        !.failed = r.failed,
                        !.offer_id = IF r.raised THEN "" ELSE OfferIds[nextId]]
    /\ UNCHANGED <<clock, procs, reached>>

AcceptFailing ==
  \E offer_id \in LookupIds, who \in Accepters, f1 \in FailPoints, f2 \in FailPoints :
    /\ \E r \in {accept_failing(active, completed, offer_id, who[1], who[2],
                               utcnow(clock), f1, f2)} :
          /\ failures + r.failed <= MaxFailures
          /\ active' = r.active
          /\ completed' = r.completed
          /\ failures' = failures + r.failed
          /\ last' = [Call("accept") EXCEPT !.offer_id = offer_id, !.accepter_id = who[1],
                        !.accepter_name = who[2], !.now = utcnow(clock),
                        !.ret = r.ret, !.raised = r.raised, !.failed = r.failed]
    /\ UNCHANGED <<clock, nextId, procs, reached>>

CompleteFailing ==
  \E offer_id \in LookupIds, f1 \in FailPoints, f2 \in FailPoints :
    /\ \E r \in {complete_failing(active, completed, offer_id, utcnow(clock), f1, f2)} :
          /\ failures + r.failed <= MaxFailures
          /\ active' = r.active
          /\ completed' = r.completed
          /\ failures' = failures + r.failed
          /\ last' = [Call("complete") EXCEPT !.offer_id = offer_id,
                        !.now = utcnow(clock), !.ret = r.ret,
                        !.raised = r.raised, !.failed = r.failed,
                        !.repeat = (last.op = "complete" /\ last.offer_id = offer_id)]
    /\ UNCHANGED <<clock, nextId, procs, reached>>

RecentFailing ==
  \E args \in RecentArgs, f1 \in FailPoints :
    /\ \E r \in {recent_failing(active, completed, args[1], args[2], f1)} :
          /\ failures + r.failed <= MaxFailures
          /\ active' = r.active
          /\ completed' = r.completed
          /\ failures' = failures + r.failed
          /\ last' = [Call("recent") EXCEPT !.n_active = args[1],
                        !.n_completed = args[2],
                        !.raised = r.raised, !.failed = r.failed,
                        !.in_progress = r.in_progress,
                        !.completed_view = r.completed_view]
    /\ UNCHANGED <<clock, nextId, procs, reached>>

\* cleanup() called directly: nothing catches the exception
CleanupFailing ==
  \E include_cancelled \in BOOLEAN, f \in FailPoints :
    /\ LET r == cleanup_failing(active, completed, include_cancelled, f)
           n == IF r.raised THEN 1 ELSE 0
       IN /\ failures + n <= MaxFailures
          /\ active' = r.active
          /\ completed' = r.completed
          /\ failures' = failures + n
          /\ last' = [Call("cleanup") EXCEPT !.include_cancelled = include_cancelled,
                        !.moved = r.moved, !.deleted = r.deleted, !.skipped = r.skipped,
                        !.raised = r.raised, !.failed = n,
                        !.repeat = (last.op = "cleanup"
                                    /\ last.include_cancelled = include_cancelled)]
    /\ UNCHANGED <<clock, nextId, procs, reached>>

NextFail ==
  Tick \/ OfferFailing \/ AcceptFailing \/ CompleteFailing \/ RecentFailing
    \/ CleanupFailing

SpecFail == Init /\ [][NextFail]_vars

\* ------------------------------------------------ overlapping invocations
\* Each step below is one storage call, or a run of storage calls together with
\* the local computation between them; the steps of different invocations
\* interleave.  An index beyond the end of the list is Python's IndexError.

\* cleanup(), up to and including its loop: the rows to copy and the indices
\* to delete, as read now
cleanup_read(a, include_cancelled) ==
  LET rows_with_idx == read_active_rows_with_indices(a)
      Hit(pair) == IsTarget(pair, include_cancelled)
      hits == SelectSeq(rows_with_idx, Hit)
  IN [to_move |-> [k \in 1..Len(hits) |-> RowOf(Zip(NormalizeRow(hits[k][2])))],
      to_delete |-> [k \in 1..Len(hits) |-> hits[k][1]]]

\* cleanup(), its two batch calls, on the tables as they are now: the append,
\* then the delete in descending index order, whose first `del` raises when
\* the largest index is beyond the end
cleanup_write(a, c, to_move, to_delete) ==
  LET c2 == append_completed_rows(c, to_move)
      idxSet == {to_delete[k] : k \in DOMAIN to_delete}
  IN IF \E i \in idxSet : i > Len(a)
     THEN [active |-> a, completed |-> c2, raised |-> TRUE, removed |-> <<>>]
     ELSE [active |-> delete_active_rows(a, to_delete), completed |-> c2,
           raised |-> FALSE,
           removed |-> [k \in DOMAIN to_delete |-> a[to_delete[k]]]]

\* mutant: the cell updates are skipped when the row is no longer OPEN
accept_update_cells_first_wins(a, idx, accepter_id, accepter_name, now) ==
  IF idx > Len(a)
  THEN [active |-> a, raised |-> TRUE, prev |-> <<>>]
  ELSE [active |-> IF accept_allowed(read_active_row(a, idx))
                   THEN accept_writes(a, idx, accepter_id, accepter_name, now)
                   ELSE a,
        raised |-> FALSE, prev |-> a[idx]]

\* accept(), its four cell updates at the index found earlier
accept_update_cells(a, idx, accepter_id, accepter_name, now) ==
  IF idx > Len(a)
  THEN [active |-> a, raised |-> TRUE, prev |-> <<>>]
  ELSE [active |-> accept_writes(a, idx, accepter_id, accepter_name, now),
        raised |-> FALSE, prev |-> a[idx]]

\* complete(), its two cell updates at the index found earlier, then the
\* append of the row read earlier
complete_update_cells(a, c, idx, row, now) ==
  IF idx > Len(a)
  THEN [active |-> a, completed |-> c, raised |-> TRUE, prev |-> <<>>]
  ELSE [active |-> complete_writes(a, idx, now),
        completed |-> append_completed(c, complete_archive_row(row, now)),
        raised |-> FALSE, prev |-> a[idx]]

\* accept(): leading sweep, find, read, status check
AcceptBegin(p) ==
  \E offer_id \in LookupIds :
    /\ procs[p].pc = "idle"
    /\ LET s1 == sweep(active, completed)
           idx == find_active_row_index(s1.active, offer_id)
           call == [Idle EXCEPT !.op = "accept", !.offer_id = offer_id,
                      !.sweeps = 1,
                      !.accepter_id = AccepterOf[p][1],
                      !.accepter_name = AccepterOf[p][2]]
       IN /\ active' = s1.active
          /\ completed' = s1.completed
          /\ procs' = [procs EXCEPT ![p] =
               IF idx = 0 \/ ~accept_allowed(read_active_row(s1.active, idx))
               THEN [call EXCEPT !.pc = "done"]
               ELSE [call EXCEPT !.pc = "accept_write", !.idx = idx]]
    /\ UNCHANGED <<clock, nextId, last, failures, reached>>

\* accept(): now = utcnow() and the four cell updates
AcceptWrite(p) ==
  /\ procs[p].pc = "accept_write"
  /\ LET me == procs[p]
         r == accept_update_cells(active, me.idx, me.accepter_id, me.accepter_name,
                                  utcnow(clock))
     IN /\ active' = r.active
        /\ procs' = [procs EXCEPT ![p] =
             [me EXCEPT !.pc = IF r.raised THEN "done" ELSE "accept_sweep",
                        !.now = utcnow(clock), !.raised = r.raised,
                        !.prev = r.prev]]
  /\ UNCHANGED <<completed, clock, nextId, last, failures, reached>>

\* accept(): trailing sweep, return True
AcceptEnd(p) ==
  /\ procs[p].pc = "accept_sweep"
  /\ LET s2 == sweep(active, completed)
     IN /\ active' = s2.active
        /\ completed' = s2.completed
  /\ procs' = [procs EXCEPT ![p].pc = "done", ![p].ret = TRUE,
                            ![p].sweeps = procs[p].sweeps + 1]
  /\ UNCHANGED <<clock, nextId, last, failures, reached>>

\* complete(): leading sweep, find, read, status check
CompleteBegin(p) ==
  \E offer_id \in LookupIds :
    /\ procs[p].pc = "idle"
    /\ LET s1 == sweep(active, completed)
           idx == find_active_row_index(s1.active, offer_id)
           call == [Idle EXCEPT !.op = "complete", !.offer_id = offer_id,
                      !.sweeps = 1]
       IN /\ active' = s1.active
          /\ completed' = s1.completed
          /\ procs' = [procs EXCEPT ![p] =
               IF idx = 0 \/ ~complete_allowed(read_active_row(s1.active, idx))
               THEN [call EXCEPT !.pc = "done"]
               ELSE [call EXCEPT !.pc = "complete_write", !.idx = idx,
                                 !.row = s1.active[idx]]]
    /\ UNCHANGED <<clock, nextId, last, failures, reached>>

\* complete(): now = utcnow(), the two cell updates and the archive append
CompleteWrite(p) ==
  /\ procs[p].pc = "complete_write"
  /\ LET me == procs[p]
         r == complete_update_cells(active, completed, me.idx, Zip(me.row),
                                    utcnow(clock))
     IN /\ active' = r.active
        /\ completed' = r.completed
        /\ procs' = [procs EXCEPT ![p] =
             [me EXCEPT !.pc = IF r.raised THEN "done" ELSE "complete_sweep",
                        !.now = utcnow(clock), !.raised = r.raised,
                        !.prev = r.prev]]
  /\ UNCHANGED <<clock, nextId, last, failures, reached>>

\* complete(): trailing sweep, return True
CompleteEnd(p) ==
  /\ procs[p].pc = "complete_sweep"
  /\ LET s2 == sweep(active, completed)
     IN /\ active' = s2.active
        /\ completed' = s2.completed
  /\ procs' = [procs EXCEPT ![p].pc = "done", ![p].ret = TRUE,
                            ![p].sweeps = procs[p].sweeps + 1]
  /\ UNCHANGED <<clock, nextId, last, failures, reached>>

\* cleanup(): the read of the rows and the loop over them
CleanupBegin(p) ==
  \E include_cancelled \in BOOLEAN :
    /\ procs[p].pc = "idle"
    /\ LET r == cleanup_read(active, include_cancelled)
       IN procs' = [procs EXCEPT ![p] =
            [Idle EXCEPT !.op = "cleanup", !.pc = "cleanup_write",
                         !.include_cancelled = include_cancelled,
                         !.to_move = r.to_move, !.to_delete = r.to_delete]]
    /\ UNCHANGED <<active, completed, clock, nextId, last, failures, reached>>

\* cleanup(): the batch append and the batch delete
CleanupEnd(p) ==
  /\ procs[p].pc = "cleanup_write"
  /\ LET me == procs[p]
         r == cleanup_write(active, completed, me.to_move, me.to_delete)
     IN /\ active' = r.active
        /\ completed' = r.completed
        /\ procs' = [procs EXCEPT ![p] =
             [me EXCEPT !.pc = "done", !.raised = r.raised,
                        !.ret = ~r.raised, !.removed = r.removed]]
  /\ UNCHANGED <<clock, nextId, last, failures, reached>>

\* offer() runs between the steps of the overlapping invocations
OfferBetween ==
  /\ nextId <= MaxOffers
  /\ LET r == offer(active, completed, OfferIds[nextId], "123", "Doug",
                    "Atlas Chassis", 1, "any rare part", "", "", utcnow(clock))
     IN /\ active' = r.active
        /\ completed' = r.completed
  /\ nextId' = nextId + 1
  /\ UNCHANGED <<clock, last, failures, procs, reached>>

NextConc ==
  \/ Tick
  \/ OfferBetween
  \/ \E p \in Procs :
       \/ AcceptBegin(p) \/ AcceptWrite(p) \/ AcceptEnd(p)
       \/ CompleteBegin(p) \/ CompleteWrite(p) \/ CompleteEnd(p)
       \/ CleanupBegin(p) \/ CleanupEnd(p)

SpecConc == Init /\ [][NextConc]_vars

\* ------------------------------------------- cleanup on arbitrary tables
\* The status cell is free text in the sheet: an outside tool may have left
\* any of these in it
StoredStatuses ==
  {STATUS_OPEN, STATUS_ACCEPTED, STATUS_COMPLETED, STATUS_CANCELLED,
   "completed", "cancelled"}

\* the row offer() appended for the k-th offer, its status cell rewritten
StoredRow(k, status) ==
  [offer_row(OfferIds[k], "123", "Doug", "Atlas Chassis", utcnow(1),
             "any rare part", "", "") EXCEPT ![2] = status]

\* active tables of up to MaxRows rows, one per offer, in creation order
StoredTables ==
  UNION {{<<HEADERS>> \o [k \in 1..n |-> StoredRow(k, f[k])] :
            f \in [1..n -> StoredStatuses]} : n \in 0..MaxRows}

InitCleanup ==
  /\ active \in StoredTables
  /\ completed = <<HEADERS>>
  /\ clock = 1
  /\ nextId = Len(active)
  /\ last = NoCall
  /\ failures = 0
  /\ procs = [p \in Procs |-> Idle]
  /\ reached = {}

SpecCleanup == InitCleanup /\ [][Cleanup]_vars

\* ------------------------------------------------- reads of stored rows
\* SheetsBackend: values().get() over the range A..N returns, for each row, the
\* cells the sheet holds inside the range
values_get(row) ==
  SubSeq(row, 1, IF Len(row) < Len(HEADERS) THEN Len(row) ELSE Len(HEADERS))

Sheets_read_active_row(a, row_idx_1) == Zip(values_get(a[row_idx_1]))

Sheets_read_active_all(a) == [i \in 1..(Len(a) - 1) |-> Zip(values_get(a[i + 1]))]

\* out.append((offset, r + [""] * (len(HEADERS) - len(r))))
Sheets_read_active_rows_with_indices(a) ==
  [i \in 1..(Len(a) - 1) |->
     LET r == values_get(a[i + 1])
     IN <<i + 1, r \o [k \in 1..(Len(HEADERS) - Len(r)) |-> ""]>>]

\* a stored row with n cells: the row offer() wrote, cut short or followed by
\* cells that an outside tool typed to the right of the schema columns
Resized(row, n) ==
  [i \in 1..n |-> IF i <= Len(row) THEN row[i] ELSE "extra"]

RowLengths == (Len(HEADERS) - MaxExtra)..(Len(HEADERS) + MaxExtra)

\* active tables of one or two stored rows of any of these lengths
ResizedTables ==
  UNION {{<<HEADERS>> \o [k \in 1..n |-> Resized(StoredRow(k, st[k]), len[k])] :
            st \in [1..n -> {STATUS_OPEN, STATUS_COMPLETED}],
            len \in [1..n -> RowLengths]} : n \in 1..2}

InitRead ==
  /\ active \in ResizedTables
  /\ completed = <<HEADERS>>
  /\ clock = 1
  /\ nextId = Len(active)
  /\ last = NoCall
  /\ failures = 0
  /\ procs = [p \in Procs |-> Idle]
  /\ reached = {}

\* every read of the active table, by either adapter
ReadActive ==
  /\ last.op = "none"
  /\ last' = [op |-> "read",
              memory_row |-> [i \in 2..Len(active) |-> read_active_row(active, i)],
              memory_all |-> read_active_all(active),
              memory_indexed |-> read_active_rows_with_indices(active),
              sheets_row |-> [i \in 2..Len(active) |-> Sheets_read_active_row(active, i)],
              sheets_all |-> Sheets_read_active_all(active),
              sheets_indexed |-> Sheets_read_active_rows_with_indices(active)]
  /\ UNCHANGED <<active, completed, clock, nextId, failures, procs, reached>>

SpecRead == InitRead /\ [][ReadActive]_vars

\* ------------------------------------- calls that stop partway through
\* A call stops after n of its storage writes have taken effect: the process
\* dies there, or the next storage call raises.  The tables keep what the n
\* writes did.  reached is the set of offers whose status cell has been
\* written COMPLETED.

\* the first n of accept()'s four cell updates
accept_writes_first(a, idx, accepter_id, accepter_name, now, n) ==
  LET a1 == IF n >= 1
            THEN update_active_cell(a, idx, HeaderIndex("status"), STATUS_ACCEPTED)
            ELSE a
      a2 == IF n >= 2
            THEN update_active_cell(a1, idx, HeaderIndex("accepter_id"), accepter_id)
            ELSE a1
      a3 == IF n >= 3
            THEN update_active_cell(a2, idx, HeaderIndex("accepter_name"), accepter_name)
            ELSE a2
  IN IF n >= 4
     THEN update_active_cell(a3, idx, HeaderIndex("accepted_ts"), now)
     ELSE a3

\* the first n of complete()'s three storage writes: status, completed_ts,
\* append to the archive
complete_writes_first(a, c, idx, row, now, n) ==
  LET a1 == IF n >= 1
            THEN update_active_cell(a, idx, HeaderIndex("status"), STATUS_COMPLETED)
            ELSE a
      a2 == IF n >= 2
            THEN update_active_cell(a1, idx, HeaderIndex("completed_ts"), now)
            ELSE a1
  IN [active |-> a2,
      completed |-> IF n >= 3
                    THEN append_completed(c, complete_archive_row(row, now))
                    ELSE c]

\* cleanup() stopped between its batch append and its batch delete
cleanup_stopped(a, c, include_cancelled) ==
  LET r == cleanup_read(a, include_cancelled)
  IN [active |-> a, completed |-> append_completed_rows(c, r.to_move)]

\* accept() of an OPEN offer, stopped after n < 4 cell updates
AcceptStopped ==
  \E offer_id \in IssuedIds, who \in Accepters, n \in 0..3 :
    /\ failures < MaxStops
    /\ LET s1 == sweep(active, completed)
           idx == find_active_row_index(s1.active, offer_id)
       IN /\ idx # 0
          /\ accept_allowed(read_active_row(s1.active, idx))
          /\ active' = accept_writes_first(s1.active, idx, who[1], who[2],
                                           utcnow(clock), n)
          /\ completed' = s1.completed
    /\ last' = [Call("accept") EXCEPT !.offer_id = offer_id, !.accepter_id = who[1],
                  !.accepter_name = who[2], !.now = utcnow(clock),
                  !.raised = TRUE, !.stopped = TRUE]
    /\ failures' = failures + 1
    /\ UNCHANGED <<clock, nextId, procs, reached>>

\* complete() of a live offer, stopped after n of its storage writes; with all
\* three done what is left undone is the trailing sweep, whose failures do not
\* raise
CompleteStopped ==
  \E offer_id \in IssuedIds, n \in 0..3 :
    /\ failures < MaxStops
    /\ LET s1 == sweep(active, completed)
           idx == find_active_row_index(s1.active, offer_id)
       IN /\ idx # 0
          /\ complete_allowed(read_active_row(s1.active, idx))
          /\ \E r \in {complete_writes_first(s1.active, s1.completed, idx,
                          read_active_row(s1.active, idx), utcnow(clock), n)} :
               /\ active' = r.active
               /\ completed' = r.completed
    /\ last' = [Call("complete") EXCEPT !.offer_id = offer_id, !.now = utcnow(clock),
                  !.raised = (n < 3), !.stopped = TRUE]
    /\ reached' = IF n >= 1 THEN reached \cup {offer_id} ELSE reached
    /\ failures' = failures + 1
    /\ UNCHANGED <<clock, nextId, procs>>

\* cleanup(), called directly or as a sweep, stopped between its append and
\* its delete
CleanupStopped ==
  \E include_cancelled \in BOOLEAN :
    /\ failures < MaxStops
    /\ cleanup_read(active, include_cancelled).to_delete # <<>>
    /\ \E r \in {cleanup_stopped(active, completed, include_cancelled)} :
         /\ active' = r.active
         /\ completed' = r.completed
    /\ last' = [Call("cleanup") EXCEPT !.include_cancelled = include_cancelled,
                  !.raised = TRUE, !.stopped = TRUE]
    /\ failures' = failures + 1
    /\ UNCHANGED <<clock, nextId, procs, reached>>

\* complete() running to its return
CompleteRun ==
  \E offer_id \in LookupIds :
    /\ \E r \in {complete(active, completed, offer_id, utcnow(clock))} :
         /\ active' = r.active
         /\ completed' = r.completed
         /\ last' = [Call("complete") EXCEPT !.offer_id = offer_id,
                       !.now = utcnow(clock), !.ret = r.ret]
         /\ reached' = IF r.ret THEN reached \cup {offer_id} ELSE reached
    /\ UNCHANGED <<clock, nextId, failures, procs>>

NextStop ==
  Tick \/ Offer \/ Accept \/ CompleteRun \/ Cleanup
    \/ AcceptStopped \/ CompleteStopped \/ CleanupStopped

SpecStop == Init /\ [][NextStop]_vars

\* ------------------------------------------------------------ properties
\* helpers of the properties: cell h of a positional row, the data rows of a
\* table, how often a row occurs in a table
Cell(row, h) == row[HeaderIndexTable[h] + 1]

DataIdx(t) == 2..Len(t)

RowsOfId(t, id) == {i \in DataIdx(t) : t[i][1] = id}

Count(t, row) == Cardinality({i \in DataIdx(t) : t[i] = row})

\* the two tables hold the same records (as a multiset) as before the call
SameRecords ==
  \A row \in {active[i] : i \in DataIdx(active)}
           \cup {completed[i] : i \in DataIdx(completed)}
           \cup {last.pre_active[i] : i \in DataIdx(last.pre_active)}
           \cup {last.pre_completed[i] : i \in DataIdx(last.pre_completed)} :
    Count(active, row) + Count(completed, row)
      = Count(last.pre_active, row) + Count(last.pre_completed, row)

Terminal == {STATUS_COMPLETED, STATUS_CANCELLED}

InProgress == {STATUS_OPEN, STATUS_ACCEPTED}

\* the status offer X had in the active table before the call ("" if absent)
PreStatus ==
  LET hits == RowsOfId(last.pre_active, last.offer_id)
  IN IF hits = {} THEN ""
     ELSE Cell(last.pre_active[CHOOSE i \in hits : \A j \in hits : i <= j], "status")

IsStamp(s) == \E n \in 1..Len(Stamps) : Stamps[n] = s

\* C1: after offer() with a positive quantity returns, the active table holds a
\* row with the returned id, status OPEN, a non-empty created_ts (a UTC stamp),
\* and empty accepter_id, accepter_name, accepted_ts and completed_ts.
C1_OfferCreatesOpenRow ==
  (last.op = "offer" /\ last.qty > 0) =>
    /\ ~last.raised
    /\ \E i \in DataIdx(active) :
         /\ Cell(active[i], "offer_id") = last.offer_id
         /\ Cell(active[i], "status") = STATUS_OPEN
         /\ Cell(active[i], "created_ts") # ""
         /\ IsStamp(Cell(active[i], "created_ts"))
         /\ Cell(active[i], "accepter_id") = ""
         /\ Cell(active[i], "accepter_name") = ""
         /\ Cell(active[i], "accepted_ts") = ""
         /\ Cell(active[i], "completed_ts") = ""

C1_Witness ==
  /\ last.op = "offer" /\ last.qty > 0
  /\ Len(last.pre_active) > 1
  /\ Len(active) > Len(last.pre_active)

\* C2: accept(X, a_id, a_name) on an offer X that is OPEN in the active table
\* returns true; afterwards X's record is ACCEPTED, carries a_id and a_name, and
\* has accepted_ts set to a value >= created_ts.
C2_AcceptOpen ==
  (last.op = "accept" /\ PreStatus = STATUS_OPEN) =>
    /\ last.ret
    /\ RowsOfId(active, last.offer_id) # {}
    /\ \A i \in RowsOfId(active, last.offer_id) \cup RowsOfId(completed, last.offer_id) :
         LET row == IF i \in RowsOfId(active, last.offer_id) THEN active[i] ELSE completed[i]
         IN /\ i \in RowsOfId(active, last.offer_id)
            /\ Cell(row, "status") = STATUS_ACCEPTED
            /\ Cell(row, "accepter_id") = last.accepter_id
            /\ Cell(row, "accepter_name") = last.accepter_name
            /\ Cell(row, "accepted_ts") # ""
            /\ StrRank(Cell(row, "accepted_ts")) >= StrRank(Cell(row, "created_ts"))

C2_Witness ==
  /\ last.op = "accept" /\ PreStatus = STATUS_OPEN /\ last.ret
  /\ \E i \in RowsOfId(active, last.offer_id) :
       StrRank(Cell(active[i], "accepted_ts")) > StrRank(Cell(active[i], "created_ts"))

\* C3: accept(X, ...) returns false whenever X is not in the active table or
\* X's status is not OPEN, and then no field of any record of either table is
\* changed (the records of the two tables are the same as before the call).
C3_AcceptRejects ==
  (last.op = "accept" /\ PreStatus # STATUS_OPEN) =>
    /\ ~last.ret
    /\ SameRecords

C3_Witness ==
  /\ last.op = "accept" /\ ~last.ret
  /\ PreStatus = STATUS_ACCEPTED

\* the row offer X had in the active table before the call
PreRow ==
  LET hits == RowsOfId(last.pre_active, last.offer_id)
  IN last.pre_active[CHOOSE i \in hits : \A j \in hits : i <= j]

\* C4: complete(X) on an offer X that is OPEN or ACCEPTED returns true, sets
\* status COMPLETED and a completed_ts >= every timestamp the record had, and on
\* return X's COMPLETED record is readable from the archive table.
C4_CompleteLive ==
  (last.op = "complete" /\ PreStatus \in InProgress) =>
    /\ last.ret
    /\ \E r \in {read_completed_all(completed)[k] : k \in 1..(Len(completed) - 1)} :
         /\ r["offer_id"] = last.offer_id
         /\ r["status"] = STATUS_COMPLETED
    /\ \A t \in {active, completed} : \A i \in RowsOfId(t, last.offer_id) :
         /\ Cell(t[i], "status") = STATUS_COMPLETED
         /\ Cell(t[i], "completed_ts") # ""
         /\ StrRank(Cell(t[i], "completed_ts")) >= StrRank(Cell(PreRow, "created_ts"))
         /\ StrRank(Cell(t[i], "completed_ts")) >= StrRank(Cell(PreRow, "accepted_ts"))
         /\ Cell(t[i], "created_ts") = Cell(PreRow, "created_ts")
         /\ Cell(t[i], "accepted_ts") = Cell(PreRow, "accepted_ts")

C4_Witness ==
  /\ last.op = "complete" /\ PreStatus = STATUS_ACCEPTED /\ last.ret
  /\ \E i \in RowsOfId(completed, last.offer_id) :
       StrRank(Cell(completed[i], "completed_ts")) > StrRank(Cell(completed[i], "accepted_ts"))

\* the rows of the pre-call active table that have a terminal status, in order
PreTerminalRows ==
  LET IsTerminalRow(row) == Cell(row, "status") \in Terminal
  IN SelectSeq(Tail(last.pre_active), IsTerminalRow)

\* C5 (as stated): complete(X) returns false and adds no row to the archive
\* table whenever X is not found or X's status is COMPLETED or CANCELLED.
C5_Original ==
  (last.op = "complete" /\ PreStatus \in {""} \cup Terminal) =>
    /\ ~last.ret
    /\ completed = last.pre_completed

\* C5 (amended): complete(X) returns false whenever X is not found or X's status
\* is COMPLETED or CANCELLED, and the only rows the call adds to the archive
\* table are the COMPLETED or CANCELLED rows its sweep moves out of the active
\* table (none when the active table holds none); the second of two consecutive
\* complete(X) calls returns false and adds no row.
C5_CompleteRejects ==
  /\ (last.op = "complete" /\ PreStatus \in {""} \cup Terminal) =>
       /\ ~last.ret
       /\ completed = last.pre_completed \o PreTerminalRows
       /\ SameRecords
  /\ (last.op = "complete" /\ last.repeat) =>
       /\ ~last.ret
       /\ completed = last.pre_completed

C5_Witness ==
  /\ last.op = "complete" /\ ~last.ret
  /\ PreStatus = STATUS_CANCELLED
  /\ Len(completed) > Len(last.pre_completed)

\* C6: after cleanup(include_cancelled=true) no row of the active table has
\* status COMPLETED or CANCELLED, and every row that had such a status in the
\* active table before the call is in the archive table with identical values.
C6_CleanupMovesTerminal ==
  (last.op = "cleanup" /\ last.include_cancelled) =>
    /\ \A i \in DataIdx(active) : Cell(active[i], "status") \notin Terminal
    /\ \A i \in DataIdx(last.pre_active) :
         Cell(last.pre_active[i], "status") \in Terminal =>
           /\ Count(completed, last.pre_active[i])
                >= Count(last.pre_completed, last.pre_active[i])
                   + Count(last.pre_active, last.pre_active[i])
           /\ \E j \in DataIdx(completed) : completed[j] = last.pre_active[i]

C6_Witness ==
  /\ last.op = "cleanup" /\ last.include_cancelled
  /\ \E i, j \in DataIdx(last.pre_active) :
       /\ Cell(last.pre_active[i], "status") = STATUS_CANCELLED
       /\ Cell(last.pre_active[j], "status") \in InProgress

\* C7: for either value of include_cancelled the counts of cleanup satisfy
\* moved = deleted and moved + skipped = data rows of the active table before
\* the call, and the active table afterwards holds exactly `skipped` data rows.
C7_CleanupCounts ==
  (last.op = "cleanup") =>
    /\ last.moved = last.deleted
    /\ last.moved + last.skipped = Len(last.pre_active) - 1
    /\ Len(active) - 1 = last.skipped

C7_Witness ==
  /\ last.op = "cleanup" /\ ~last.include_cancelled
  /\ last.moved > 0 /\ last.skipped > 0
  /\ \E i \in DataIdx(active) : Cell(active[i], "status") = STATUS_CANCELLED

\* C8: a cleanup that directly follows a cleanup with the same include_cancelled
\* returns moved 0, deleted 0, skipped N (the number of active rows) and changes
\* neither table.
C8_CleanupIdempotent ==
  (last.op = "cleanup" /\ last.repeat) =>
    /\ last.moved = 0
    /\ last.deleted = 0
    /\ last.skipped = Len(last.pre_active) - 1
    /\ active = last.pre_active
    /\ completed = last.pre_completed

C8_Witness ==
  /\ last.op = "cleanup" /\ last.repeat
  /\ last.skipped > 0
  /\ Len(completed) > 1

\* the key the completed list is ordered by: the first non-empty of
\* completed_ts, accepted_ts, created_ts
FirstStamp(r) ==
  IF r["completed_ts"] # "" THEN r["completed_ts"]
  ELSE IF r["accepted_ts"] # "" THEN r["accepted_ts"] ELSE r["created_ts"]

\* position of the first occurrence of record r among the rows of table t
FirstPos(t, r) == CHOOSE i \in DataIdx(t) : Zip(t[i]) = r /\ \A j \in DataIdx(t) : Zip(t[j]) = r => i <= j

\* C9: recent(n_active, n_completed) returns at most n_active in_progress and
\* n_completed completed entries for non-negative arguments; in_progress is
\* sorted descending by created_ts, completed descending by the first non-empty
\* of completed_ts, accepted_ts, created_ts; entries with equal keys keep their
\* insertion (table) order; a negative argument leaves the list untruncated.
C9_RecentSortedTruncated ==
  (last.op = "recent") =>
    LET ip == last.in_progress
        cv == last.completed_view
        live == {i \in DataIdx(active) : Cell(active[i], "status") \in InProgress}
    IN /\ last.n_active >= 0 => Len(ip) <= last.n_active
       /\ last.n_completed >= 0 => Len(cv) <= last.n_completed
       /\ last.n_active < 0 => Len(ip) = Cardinality(live)
       /\ last.n_completed < 0 => Len(cv) = Len(completed) - 1
       /\ \A i, j \in 1..Len(ip) : i < j =>
            /\ StrRank(ip[i]["created_ts"]) >= StrRank(ip[j]["created_ts"])
            /\ (ip[i]["created_ts"] = ip[j]["created_ts"] /\ ip[i] # ip[j]) =>
                 FirstPos(active, ip[i]) < FirstPos(active, ip[j])
       /\ \A i, j \in 1..Len(cv) : i < j =>
            /\ StrRank(FirstStamp(cv[i])) >= StrRank(FirstStamp(cv[j]))
            /\ (FirstStamp(cv[i]) = FirstStamp(cv[j]) /\ cv[i] # cv[j]) =>
                 FirstPos(completed, cv[i]) < FirstPos(completed, cv[j])

\* two entries in table order had to be swapped, and two tied entries kept
C9_Witness ==
  /\ last.op = "recent" /\ last.n_active < 0 /\ last.n_completed < 0
  /\ Len(last.in_progress) = 2
  /\ StrRank(last.in_progress[1]["created_ts"]) > StrRank(last.in_progress[2]["created_ts"])
  /\ FirstPos(active, last.in_progress[1]) > FirstPos(active, last.in_progress[2])

\* how often record r occurs in a list of records
CountIn(list, r) == Cardinality({k \in 1..Len(list) : list[k] = r})

\* C10: with unlimited sizes, in_progress holds exactly the active-table
\* records that are OPEN or ACCEPTED, and completed holds exactly the
\* archive-table records together with the active-table records that are
\* COMPLETED or CANCELLED; no terminal record is in in_progress and no OPEN or
\* ACCEPTED active record is in completed.
C10_RecentPartition ==
  (last.op = "recent" /\ last.n_active < 0 /\ last.n_completed < 0) =>
    LET ip == last.in_progress
        cv == last.completed_view
        Recs(t) == {Zip(t[i]) : i \in DataIdx(t)}
        all == Recs(active) \cup Recs(completed) \cup Recs(last.pre_active)
                 \cup Recs(last.pre_completed)
                 \cup {ip[k] : k \in 1..Len(ip)} \cup {cv[k] : k \in 1..Len(cv)}
        Live(t, r) == Cardinality({i \in DataIdx(t) : Zip(t[i]) = r /\ r["status"] \in InProgress})
        Done(t, r) == Cardinality({i \in DataIdx(t) : Zip(t[i]) = r /\ r["status"] \in Terminal})
        All(t, r) == Cardinality({i \in DataIdx(t) : Zip(t[i]) = r})
    IN /\ \A r \in all :
            /\ CountIn(ip, r) = Live(active, r)
            /\ CountIn(ip, r) = Live(last.pre_active, r)
            /\ CountIn(cv, r) = All(completed, r) + Done(active, r)
            /\ CountIn(cv, r) = All(last.pre_completed, r) + Done(last.pre_active, r)
       /\ \A k \in 1..Len(ip) : ip[k]["status"] \notin Terminal
       /\ \A k \in 1..Len(cv) : Live(active, cv[k]) = 0

C10_Witness ==
  /\ last.op = "recent" /\ last.n_active < 0 /\ last.n_completed < 0
  /\ Len(last.in_progress) > 0
  /\ Len(last.completed_view) > 0
  /\ \E i \in DataIdx(last.pre_active) : Cell(last.pre_active[i], "status") \in Terminal

\* the calls of the engine (an external edit is not one)
EngineOps == {"offer", "accept", "complete", "recent", "cleanup"}

\* the rows of a table, and of both tables, that carry offer id `id`
RowsFor(t, id) == {t[i] : i \in RowsOfId(t, id)}

PreRowsFor(id) == RowsFor(last.pre_active, id) \cup RowsFor(last.pre_completed, id)

PostRowsFor(id) == RowsFor(active, id) \cup RowsFor(completed, id)

IdsOf(t) == {t[i][1] : i \in DataIdx(t)}

\* C11 (as stated): on a ledger with no other trade, after offer -> X,
\* accept(X) -> true and complete(X) -> true, recent(n_active, n_completed) with
\* both sizes >= 1 has an empty in_progress and a completed list of exactly one
\* record: offer_id X, status COMPLETED, the item_raw that was offered.
C11_DemoScenario ==
  (/\ last.op = "recent" /\ last.n_active >= 1 /\ last.n_completed >= 1
   /\ nextId = 2
   /\ \E i \in RowsOfId(completed, OfferIds[1]) :
        /\ Cell(completed[i], "accepted_ts") # ""
        /\ Cell(completed[i], "completed_ts") # "") =>
    /\ last.in_progress = <<>>
    /\ Len(last.completed_view) = 1
    /\ last.completed_view[1]["offer_id"] = OfferIds[1]
    /\ last.completed_view[1]["status"] = STATUS_COMPLETED
    /\ last.completed_view[1]["item_raw"] \in Items

\* a status may stay, or move OPEN -> ACCEPTED -> COMPLETED (OPEN -> COMPLETED)
Forward(p, q) ==
  \/ p = q
  \/ p = STATUS_OPEN /\ q \in {STATUS_ACCEPTED, STATUS_COMPLETED}
  \/ p = STATUS_ACCEPTED /\ q = STATUS_COMPLETED

\* C12: over non-overlapping engine calls the status of every record only moves
\* forward along OPEN -> ACCEPTED -> COMPLETED (OPEN -> COMPLETED allowed); no
\* call moves a status back and no call writes CANCELLED (a record a call
\* creates is OPEN, a CANCELLED record was CANCELLED before the call).
C12_StatusForward ==
  (last.op \in EngineOps) =>
    \A id \in IdsOf(active) \cup IdsOf(completed) :
      /\ PreRowsFor(id) = {} =>
           /\ last.op = "offer"
           /\ \A r \in PostRowsFor(id) : Cell(r, "status") = STATUS_OPEN
      /\ \A q \in PreRowsFor(id), r \in PostRowsFor(id) :
           Forward(Cell(q, "status"), Cell(r, "status"))

C12_Witness ==
  /\ last.op = "complete" /\ last.ret
  /\ PreStatus = STATUS_ACCEPTED
  /\ \E id \in IdsOf(last.pre_active) \ {last.offer_id} :
       \E r \in PostRowsFor(id) : Cell(r, "status") = STATUS_CANCELLED

\* C13: when offer, accept, complete or recent has returned, no offer_id is
\* present in both the active table and the archive table.
C13_OneTablePerRecord ==
  (last.op \in {"offer", "accept", "complete", "recent"}) =>
    IdsOf(active) \cap IdsOf(completed) = {}

C13_Witness ==
  /\ last.op = "complete" /\ last.ret
  /\ IdsOf(active) # {}
  /\ last.offer_id \in IdsOf(completed)

\* C14 (as stated): the archive table holds at most one row per offer_id.
C14_ArchiveNoDuplicates ==
  \A id \in IdsOf(completed) : Cardinality(RowsOfId(completed, id)) <= 1

\* C15 (as stated): offer() with a non-positive quantity raises and leaves the
\* active and the archive table exactly as they were before the call.
C15_InvalidOfferNoEffect ==
  (last.op = "offer" /\ last.qty <= 0) =>
    /\ last.raised
    /\ active = last.pre_active
    /\ completed = last.pre_completed

TimestampFields == {"created_ts", "accepted_ts", "completed_ts"}

\* C16: a storage failure raised inside the internal sweep never aborts the
\* calling offer, accept, complete or recent: the call raises nothing (offer
\* only for a non-positive quantity), accept returns true exactly for an OPEN
\* offer and complete exactly for an OPEN or ACCEPTED one, and the primary write
\* is in the tables on return; the same failure inside a directly called
\* cleanup() propagates to the caller.
C16_SweepFailureSwallowed ==
  (last.failed > 0) =>
    /\ last.op = "offer" =>
         /\ last.raised = (last.qty <= 0)
         /\ ~last.raised =>
              \E i \in RowsOfId(active, last.offer_id) :
                Cell(active[i], "status") = STATUS_OPEN
    /\ last.op = "accept" =>
         /\ ~last.raised
         /\ last.ret = (PreStatus = STATUS_OPEN)
         /\ last.ret =>
              \E i \in RowsOfId(active, last.offer_id) :
                /\ Cell(active[i], "status") = STATUS_ACCEPTED
                /\ Cell(active[i], "accepter_id") = last.accepter_id
                /\ Cell(active[i], "accepted_ts") = last.now
    /\ last.op = "complete" =>
         /\ ~last.raised
         /\ last.ret = (PreStatus \in InProgress)
         /\ last.ret =>
              \E i \in RowsOfId(completed, last.offer_id) :
                /\ Cell(completed[i], "status") = STATUS_COMPLETED
                /\ Cell(completed[i], "completed_ts") = last.now
    /\ last.op = "recent" =>
         /\ ~last.raised
         /\ \A k \in 1..Len(last.in_progress) :
              last.in_progress[k]["status"] \in InProgress
         /\ last.n_active >= Len(active) =>
              Len(last.in_progress)
                = Cardinality({i \in DataIdx(active) :
                                 Cell(active[i], "status") \in InProgress})
    /\ last.op = "cleanup" => last.raised

\* a sweep failed inside accept() of an OPEN offer, which returned true
C16_Witness ==
  /\ last.op = "accept"
  /\ last.failed > 0
  /\ last.ret
  /\ PreStatus = STATUS_OPEN

\* C17: over non-overlapping engine calls with a non-decreasing clock, each of
\* created_ts, accepted_ts, completed_ts is written at most once (a non-empty
\* stamp is never changed by a call), accepted_ts is non-empty only with status
\* ACCEPTED or COMPLETED, completed_ts only with status COMPLETED, and the
\* non-empty stamps satisfy created_ts <= accepted_ts <= completed_ts.
C17_TimestampsOnceOrdered ==
  /\ (last.op \in EngineOps) =>
       \A id \in IdsOf(active) \cup IdsOf(completed) :
         \A q \in PreRowsFor(id), r \in PostRowsFor(id), h \in TimestampFields :
           Cell(q, h) # "" => Cell(r, h) = Cell(q, h)
  /\ \A t \in {active, completed} : \A i \in DataIdx(t) :
       LET created == Cell(t[i], "created_ts")
           accepted == Cell(t[i], "accepted_ts")
           done == Cell(t[i], "completed_ts")
           status == Cell(t[i], "status")
       IN /\ created # ""
          /\ accepted # "" => status \in {STATUS_ACCEPTED, STATUS_COMPLETED}
          /\ done # "" => status = STATUS_COMPLETED
          /\ accepted # "" => StrRank(created) <= StrRank(accepted)
          /\ done # "" => StrRank(created) <= StrRank(done)
          /\ (accepted # "" /\ done # "") => StrRank(accepted) <= StrRank(done)

C17_Witness ==
  /\ last.op = "complete" /\ last.ret
  /\ \E i \in RowsOfId(completed, last.offer_id) :
       /\ Cell(completed[i], "accepted_ts") # ""
       /\ StrRank(Cell(completed[i], "created_ts"))
            < StrRank(Cell(completed[i], "completed_ts"))
  /\ \E i \in DataIdx(active) : Cell(active[i], "accepted_ts") # ""

\* the invocation p has issued its cell updates
HasWritten(p) ==
  /\ procs[p].op \in {"accept", "complete"}
  /\ procs[p].pc \in {"accept_sweep", "complete_sweep", "done"}
  /\ procs[p].prev # <<>>

\* C18 (as stated): when the active table is mutated by another engine call
\* between cleanup's read of the rows and its delete, cleanup never removes
\* from the active table a row whose status is OPEN or ACCEPTED, and never
\* removes a row that it did not copy to the archive table.
C18_CleanupSafeUnderMutation ==
  \A p \in Procs :
    (procs[p].op = "cleanup" /\ procs[p].pc = "done") =>
      \A k \in DOMAIN procs[p].removed :
        /\ Cell(procs[p].removed[k], "status") \notin InProgress
        /\ \E j \in DOMAIN procs[p].to_move :
             procs[p].to_move[j] = RowOf(Zip(NormalizeRow(procs[p].removed[k])))

\* both invocations ran the same operation on the same offer and returned true
BothTrue(p, q, op) ==
  /\ p # q
  /\ procs[p].op = op /\ procs[q].op = op
  /\ procs[p].pc = "done" /\ procs[q].pc = "done"
  /\ procs[p].ret /\ procs[q].ret
  /\ procs[p].offer_id = procs[q].offer_id

\* C19: two overlapping invocations on the same offer_id can both pass the
\* precondition check before either writes.  When two accept calls on one
\* offer have both returned true, one of them wrote over the other: the row it
\* updated was already ACCEPTED with the other call's accepter and accepted_ts,
\* and the row now carries its own accepter fields and accepted_ts.  When two
\* complete calls on one offer have both returned true, each has appended its
\* own COMPLETED record of the offer to the archive.
C19_DoubleTransition ==
  \A p \in Procs, q \in Procs :
    /\ BothTrue(p, q, "accept") =>
         \E w \in {p, q} :
           LET e == IF w = p THEN q ELSE p
               X == procs[w].offer_id
           IN /\ Cell(procs[w].prev, "status") = STATUS_ACCEPTED
              /\ Cell(procs[w].prev, "accepter_id") = procs[e].accepter_id
              /\ Cell(procs[w].prev, "accepted_ts") = procs[e].now
              /\ Cell(procs[e].prev, "status") = STATUS_OPEN
              /\ \E i \in RowsOfId(active, X) :
                   /\ Cell(active[i], "status") = STATUS_ACCEPTED
                   /\ Cell(active[i], "accepter_id") = procs[w].accepter_id
                   /\ Cell(active[i], "accepter_name") = procs[w].accepter_name
                   /\ Cell(active[i], "accepted_ts") = procs[w].now
    /\ BothTrue(p, q, "complete") =>
         /\ \A w \in {p, q} :
              \E i \in RowsOfId(completed, procs[w].offer_id) :
                /\ Cell(completed[i], "status") = STATUS_COMPLETED
                /\ Cell(completed[i], "completed_ts") = procs[w].now
         /\ Cardinality(RowsOfId(completed, procs[p].offer_id)) >= 3

\* two accept calls on the same OPEN offer have both returned true, the later
\* one having replaced the accepter of the earlier one
C19_Witness ==
  /\ BothTrue(1, 2, "accept")
  /\ \E w \in Procs :
       /\ Cell(procs[w].prev, "status") = STATUS_ACCEPTED
       /\ Cell(procs[w].prev, "accepter_id") # procs[w].accepter_id

\* two complete calls on the same offer have both returned true
C19_TwoCompletes == BothTrue(1, 2, "complete")

\* C20 (as stated): accept(X) and complete(X) only ever write cells of the row
\* whose offer_id is X, even when another engine call's sweep deletes
\* active-table rows between the call's find-by-id and its cell updates: no
\* cell of a row with a different offer_id is modified and no write is aimed
\* outside the table.
C20_WritesOnlyOwnRow ==
  \A p \in Procs :
    /\ HasWritten(p) => procs[p].prev[1] = procs[p].offer_id
    /\ procs[p].op \in {"accept", "complete"} => ~procs[p].raised

\* C22 (as stated, for accept and complete): every invocation runs a sweep as
\* its first step and another sweep as its last step before returning, on
\* every return path, the ones returning false included.
C22_SweepFirstAndLast ==
  \A p \in Procs :
    (procs[p].op \in {"accept", "complete"} /\ procs[p].pc = "done"
       /\ ~procs[p].raised) =>
      procs[p].sweeps = 2

\* the data rows of a table, in table order
DataRows(t) == [i \in 1..(Len(t) - 1) |-> t[i + 1]]

\* C23: cleanup(include_cancelled) moves exactly the active rows whose
\* upper-cased status is COMPLETED, or CANCELLED when include_cancelled is
\* true; every other row stays in the active table with unchanged field values
\* and in the same relative order, and the moved rows are appended to the
\* archive in their active-table order.
C23_CleanupMovesExactlyTargets ==
  (last.op = "cleanup") =>
    LET Target(row) ==
          \/ Upper(Cell(row, "status")) = "COMPLETED"
          \/ last.include_cancelled /\ Upper(Cell(row, "status")) = "CANCELLED"
        Other(row) == ~Target(row)
        before == DataRows(last.pre_active)
    IN /\ active = <<HEADERS>> \o SelectSeq(before, Other)
       /\ completed = last.pre_completed \o SelectSeq(before, Target)

\* cleanup(False) met a lower-case completed row, a CANCELLED row and a live
\* row: it moved the first and kept the other two
C23_Witness ==
  /\ last.op = "cleanup"
  /\ ~last.include_cancelled
  /\ \E i \in DataIdx(last.pre_active), j \in DataIdx(last.pre_active) :
       /\ i < j
       /\ Cell(last.pre_active[i], "status") = STATUS_CANCELLED
       /\ Cell(last.pre_active[j], "status") = "completed"
  /\ \E i \in DataIdx(last.pre_active) :
       Cell(last.pre_active[i], "status") \in InProgress
  /\ last.moved = 1
  /\ Len(active) = 3

\* some invocation ran operation op for the offer id
CalledFor(op, id) ==
  \E p \in Procs : procs[p].op = op /\ procs[p].offer_id = id

\* C24 (as stated): accept and complete change only the fields of their
\* transition.  The fields set at creation stay as offer() wrote them; a record
\* that no accept was called for has empty accepter_id, accepter_name and
\* accepted_ts; a record that no complete was called for has an empty
\* completed_ts and is not COMPLETED; and a record that neither was called for
\* is exactly as it was created.
C24_OnlyTransitionFields ==
  \A t \in {active, completed} :
    \A i \in DataIdx(t) :
      LET row == t[i]
          id == row[1]
      IN /\ Cell(row, "item_raw") = "Atlas Chassis"
         /\ Cell(row, "item_norm") = "Atlas Chassis"
         /\ Cell(row, "offerer_id") = "123"
         /\ Cell(row, "offerer_name") = "Doug"
         /\ IsStamp(Cell(row, "created_ts"))
         /\ Cell(row, "notes") = "any rare part"
         /\ Cell(row, "guild_id") = ""
         /\ Cell(row, "channel_id") = ""
         /\ ~CalledFor("accept", id) =>
              /\ Cell(row, "accepter_id") = ""
              /\ Cell(row, "accepter_name") = ""
              /\ Cell(row, "accepted_ts") = ""
              /\ Cell(row, "status") # STATUS_ACCEPTED
         /\ ~CalledFor("complete", id) =>
              /\ Cell(row, "completed_ts") = ""
              /\ Cell(row, "status") # STATUS_COMPLETED

IsPrefix(s, t) == Len(s) <= Len(t) /\ \A i \in 1..Len(s) : s[i] = t[i]

\* C25: the archive table is append-only: no engine operation deletes,
\* reorders or modifies a row once it is in the archive table, so in every
\* step the previous archive content is a prefix of the new archive content.
C25_ArchiveAppendOnly == [][IsPrefix(completed, completed')]_vars

\* the archive has been appended to by a complete() and then by a sweep
C25_Witness ==
  /\ Len(completed) >= 3
  /\ \E p \in Procs : procs[p].op = "complete" /\ procs[p].pc = "done" /\ procs[p].ret

\* C27: no trade is ever lost: in every state reachable by non-overlapping
\* offer, accept, complete, recent and cleanup calls whose storage calls
\* succeed, every offer_id ever returned by offer() is present in the active
\* table or in the archive table.
C27_NoTradeLost ==
  IssuedIds \subseteq IdsOf(active) \cup IdsOf(completed)

\* two offers were issued; one has been archived and removed from the active
\* table, the other is still in the active table
C27_Witness ==
  /\ nextId = 3
  /\ OfferIds[1] \in IdsOf(completed) \ IdsOf(active)
  /\ OfferIds[2] \in IdsOf(active) \ IdsOf(completed)

\* C26 (as stated): every read of the active table (one row, all rows, all
\* rows with indices), in both the in-memory and the remote adapter, returns
\* each row normalized to the schema length: missing trailing fields are empty
\* strings and values beyond the 14th are dropped.
C26_ReadsNormalize ==
  (last.op = "read") =>
    \A i \in DataIdx(active) :
      LET norm == NormalizeRow(active[i])
      IN /\ last.memory_row[i] = Zip(norm)
         /\ last.memory_all[i - 1] = Zip(norm)
         /\ last.memory_indexed[i - 1] = <<i, norm>>
         /\ last.sheets_row[i] = Zip(norm)
         /\ last.sheets_all[i - 1] = Zip(norm)
         /\ last.sheets_indexed[i - 1] = <<i, norm>>

\* the last call ran to its end and ran a full sweep on the way
SweptToCompletion ==
  /\ ~last.stopped
  /\ \/ last.op \in {"offer", "accept", "complete"}
     \/ last.op = "cleanup" /\ last.include_cancelled

\* C21: the state left by a stop at any step of complete or cleanup is
\* self-healing: once a later sweep has run to completion, the active table
\* holds no COMPLETED or CANCELLED row and every record whose status reached
\* COMPLETED is present in the archive table.
C21_SelfHealing ==
  SweptToCompletion =>
    /\ \A i \in DataIdx(active) : Cell(active[i], "status") \notin Terminal
    /\ \A id \in reached :
         \E i \in RowsOfId(completed, id) :
           Cell(completed[i], "status") = STATUS_COMPLETED

\* a stop between "append to archive" and "delete from active" had left a
\* COMPLETED record in both tables; the sweep that has just run removed the
\* active copy
C21_Witness ==
  /\ SweptToCompletion
  /\ \E id \in reached :
       /\ id \in IdsOf(last.pre_active) \cap IdsOf(last.pre_completed)
       /\ id \notin IdsOf(active)
       /\ id \in IdsOf(completed)

\* C28 (as stated): accept and complete are all-or-nothing under storage
\* failure: if a storage call fails partway through accept or complete so
\* that the call raises, the record is left exactly as it was before the call.
C28_AllOrNothing ==
  (last.op \in {"accept", "complete"} /\ last.raised) =>
    PostRowsFor(last.offer_id) = PreRowsFor(last.offer_id)

====
